---- MODULE Spec2Model ----
(***************************************************************************)
(* A model of the binary packing library of pack.h: the element codecs     *)
(* (integral, compressed, fixed_string, varchar, sequence), the cursor     *)
(* sentinel current_iterator, and the format combinator built on           *)
(* follow_up.                                                              *)
(*                                                                         *)
(* Bytes are the numbers 0..255, a std::string is a sequence of bytes, an  *)
(* iterator is the number of bytes between the start of the buffer and the *)
(* position it points at.  A codec is a record naming its template         *)
(* arguments.  Integers keep their declared width: every conversion to a   *)
(* data_type is taken modulo 2^size.  TLC's integers are 32 bits wide, so  *)
(* the widths instantiated are 8 and 16.                                   *)
(***************************************************************************)
EXTENDS Integers, Sequences, FiniteSets, TLC

VARIABLES
    fmt,      \* the format: the sequence of its element codecs
    args,     \* the arguments given to format::pack
    source,   \* where the bytes come from: "pack", or "raw" for bytes handed in
    packed,   \* the byte string
    extra,    \* the number of bytes the caller appended to the packed string
    pc,       \* the caller's position
    idx,      \* the element whose follow_up frame runs next
    current,  \* the read cursor, as an offset from packed.begin()
    result,   \* the values decoded so far, in order
    error     \* the exception thrown, as <<kind, what>>, or NoError

vars == <<fmt, args, source, packed, extra, pc, idx, current, result, error>>

-----------------------------------------------------------------------------
(* Bounds of the model *)

MaxFormatLen == 2
MaxStrLen == 3
MaxSeqLen == 2
MaxRawLen == 4
MaxExtra == 1
Radius == 1

-----------------------------------------------------------------------------
(* Integer types *)

RECURSIVE Pow2(_)
Pow2(n) == IF n = 0 THEN 1 ELSE 2 * Pow2(n - 1)

RECURSIVE BitXor(_, _)
BitXor(a, b) ==
    IF a = 0 /\ b = 0 THEN 0
    ELSE ((a + b) % 2) + 2 * BitXor(a \div 2, b \div 2)

Sizes == {8, 16}
Signs == {"yes", "no"}
Orders == {"little", "big"}
native == "little"

(* the bit pattern of v in a size-bit integer *)
ToUnsigned(size, v) == v % Pow2(size)

(* the value a size-bit two's complement integer with bit pattern u holds *)
ToSigned(size, u) == IF u >= Pow2(size - 1) THEN u - Pow2(size) ELSE u

(* conversion of an integer to integer_for<size, sign>::type *)
integer_for(size, sign, v) ==
    IF sign = "no" THEN ToUnsigned(size, v) ELSE ToSigned(size, ToUnsigned(size, v))

(* std::numeric_limits<data_type>::max() of the unsigned type *)
max(size) == Pow2(size) - 1

block_size == 128
mask == block_size - 1

-----------------------------------------------------------------------------
(* Byte strings *)

RECURSIVE Reverse(_)
Reverse(s) == IF s = <<>> THEN <<>> ELSE Append(Reverse(Tail(s)), Head(s))

Repeat(n, c) == [i \in 1..n |-> c]

(* the object representation of a size-bit pattern u on the little-endian host *)
ValueBytes(size, u) == [i \in 1..(size \div 8) |-> (u \div Pow2(8 * (i - 1))) % 256]

RECURSIVE BytesValue(_)
BytesValue(bytes) ==
    IF bytes = <<>> THEN 0 ELSE Head(bytes) + 256 * BytesValue(Tail(bytes))

(* a copy that keeps the host order whatever the declared order *)
byte_copy_in_host_order(swap, bytes) == bytes

(* byte_copy<swap>: copy in order, or last byte first *)
byte_copy(swap, bytes) == IF swap THEN Reverse(bytes) ELSE bytes

-----------------------------------------------------------------------------
(* Results of pack and unpack *)

Packed(bytes) == [ok |-> TRUE, bytes |-> bytes]
invalid_input == [ok |-> FALSE, bytes |-> <<>>]

NoError == <<"none", "">>

Decoded(v, cur) == [st |-> "ok", val |-> v, cur |-> cur, what |-> ""]
Thrown(kind, what, cur) == [st |-> kind, val |-> <<>>, cur |-> cur, what |-> what]

-----------------------------------------------------------------------------
(* integral<size, sign, order> *)

integral_pack(size, sign, order, value) ==
    byte_copy(order # native, ValueBytes(size, ToUnsigned(size, value)))

(* an unpack that wants one byte more than the integer has *)
integral_unpack_off_by_one(size, sign, order, buf, cur) ==
    LET data_size == size \div 8 IN
    IF cur + data_size < Len(buf)
    THEN LET temp == byte_copy(order # native, SubSeq(buf, cur + 1, cur + data_size))
         IN Decoded(integer_for(size, sign, BytesValue(temp)), cur + data_size)
    ELSE Thrown("out_of_bounds", "integer", cur)

integral_unpack(size, sign, order, buf, cur) ==
    LET data_size == size \div 8 IN
    IF cur + data_size <= Len(buf)
    THEN LET temp == byte_copy(order # native, SubSeq(buf, cur + 1, cur + data_size))
         IN Decoded(integer_for(size, sign, BytesValue(temp)), cur + data_size)
    ELSE Thrown("out_of_bounds", "integer", cur)

-----------------------------------------------------------------------------
(* compressed<sign::no, order, max_size> *)

(* the pack loop: while (value) { push (value % block_size) | block_size; value /= block_size } *)
RECURSIVE pack_loop(_)
pack_loop(value) ==
    IF value = 0 THEN <<>>
    ELSE <<(value % block_size) + block_size>> \o pack_loop(value \div block_size)

(* the continuation bit left set on the last byte *)
clear_back_omitted(ret) == ret

(* ret.back() &= mask *)
clear_back(ret) == IF ret = <<>> THEN ret ELSE [ret EXCEPT ![Len(ret)] = @ % block_size]

compressed_pack_little(max_size, v) ==
    LET value == ToUnsigned(max_size, v) IN
    IF value = 0 THEN <<0>> ELSE clear_back(pack_loop(value))

compressed_pack_big(max_size, v) ==
    LET value == ToUnsigned(max_size, v) IN
    IF value = 0 THEN <<0>> ELSE clear_back(Reverse(pack_loop(value)))

(* What max / factor does once factor has wrapped to zero is left open by   *)
(* the language.  The build traps (the process dies of SIGFPE), or goes on *)
(* with a quotient of zero, or goes on as if the quotient were the largest *)
(* value, so that the overlong test passes.                                *)
DivZeroOutcomes == {"trap", "zero", "max"}

quotient(max_size, factor, dz) ==
    IF factor # 0 THEN max(max_size) \div factor
    ELSE IF dz = "zero" THEN 0 ELSE max(max_size)

(* the little-endian unpack loop, entered with the loop variables current, factor, ret *)
RECURSIVE unpack_loop_little(_, _, _, _, _, _)
unpack_loop_little(max_size, buf, cur, factor, ret, dz) ==
    IF cur = Len(buf) THEN Thrown("out_of_bounds", "compressed integer", cur)
    ELSE LET value == buf[cur + 1]
             digit == value % block_size
         IN IF factor = 0 /\ dz = "trap" THEN Thrown("sigfpe", "division by zero", cur + 1)
            ELSE IF quotient(max_size, factor, dz) < digit
                 THEN Thrown("overlong", "", cur + 1)
                 ELSE LET ret2 == ToUnsigned(max_size, ret + digit * factor)
                          factor2 == ToUnsigned(max_size, factor * block_size)
                      IN IF value >= block_size
                         THEN unpack_loop_little(max_size, buf, cur + 1, factor2, ret2, dz)
                         ELSE Decoded(ret2, cur + 1)

compressed_unpack_little(max_size, buf, cur, dz) ==
    unpack_loop_little(max_size, buf, cur, 1, 0, dz)

(* a big-endian loop without the overlong test: the accumulator wraps *)
RECURSIVE unpack_loop_big_unchecked(_, _, _, _)
unpack_loop_big_unchecked(max_size, buf, cur, ret) ==
    IF cur = Len(buf) THEN Thrown("out_of_bounds", "compressed integer", cur)
    ELSE LET value == buf[cur + 1]
             ret2 == ToUnsigned(max_size, ToUnsigned(max_size, ret * block_size)
                                           + (value % block_size))
         IN IF value >= block_size
            THEN unpack_loop_big_unchecked(max_size, buf, cur + 1, ret2)
            ELSE Decoded(ret2, cur + 1)

(* the big-endian unpack loop, entered with the loop variables current, ret *)
RECURSIVE unpack_loop_big(_, _, _, _)
unpack_loop_big(max_size, buf, cur, ret) ==
    IF cur = Len(buf) THEN Thrown("out_of_bounds", "compressed integer", cur)
    ELSE LET value == buf[cur + 1] IN
         IF max(max_size) \div block_size < ret
         THEN Thrown("overlong", "", cur + 1)
         ELSE LET ret2 == ToUnsigned(max_size, ToUnsigned(max_size, ret * block_size)
                                                + (value % block_size))
              IN IF value >= block_size
                 THEN unpack_loop_big(max_size, buf, cur + 1, ret2)
                 ELSE Decoded(ret2, cur + 1)

(* a big-endian unpack that reads the digits least significant first *)
compressed_unpack_big_as_little(max_size, buf, cur) ==
    unpack_loop_little(max_size, buf, cur, 1, 0, "trap")

compressed_unpack_big(max_size, buf, cur) == unpack_loop_big(max_size, buf, cur, 0)

unsigned_pack(order, max_size, v) ==
    IF order = "little" THEN compressed_pack_little(max_size, v)
    ELSE compressed_pack_big(max_size, v)

unsigned_unpack(order, max_size, buf, cur, dz) ==
    IF order = "little" THEN compressed_unpack_little(max_size, buf, cur, dz)
    ELSE compressed_unpack_big(max_size, buf, cur)

-----------------------------------------------------------------------------
(* compressed<sign::yes, order, max_size> *)

(* a zigzag whose right shift is logical: the sign bit alone, not its copies *)
zigzag_of_logical_shift(max_size, value) ==
    LET shl == ToUnsigned(max_size, 2 * value)
        shr == IF value < 0 THEN 1 ELSE 0
    IN integer_for(max_size, "yes", BitXor(shl, shr))

(* data_type zigzag = (value << 1) ^ (value >> (max_size - 1)), a signed     *)
(* data_type.  The shifts are taken as the compilers define them: << keeps  *)
(* the low bits of twice the value, >> copies the sign bit.                 *)
zigzag_of(max_size, value) ==
    LET shl == ToUnsigned(max_size, 2 * value)
        sar == IF value < 0 THEN max(max_size) ELSE 0
    IN integer_for(max_size, "yes", BitXor(shl, sar))

signed_pack(order, max_size, v) ==
    unsigned_pack(order, max_size, zigzag_of(max_size, integer_for(max_size, "yes", v)))

(* (zigzag >> 1) ^ (-(zigzag & 1)) on the signed data_type zigzag *)
unzigzag(max_size, zigzag) ==
    integer_for(max_size, "yes",
        BitXor(ToUnsigned(max_size, zigzag \div 2), ToUnsigned(max_size, -(zigzag % 2))))

signed_unpack(order, max_size, buf, cur, dz) ==
    LET r == unsigned_unpack(order, max_size, buf, cur, dz) IN
    IF r.st = "ok"
    THEN Decoded(unzigzag(max_size, integer_for(max_size, "yes", r.val)), r.cur)
    ELSE r

-----------------------------------------------------------------------------
(* padding::none, padding::byte_padder<character>, fixed_string<length, pad> *)

none == [padder |-> "none", character |-> 0]
byte_padder(character) == [padder |-> "byte_padder", character |-> character]
null == byte_padder(0)
space == byte_padder(32)

none_add_padding(value, length) ==
    IF Len(value) # length THEN invalid_input ELSE Packed(value)

(* a padder that cuts a value longer than the field to the field's length *)
byte_padder_add_padding_cutting(character, value, length) ==
    IF Len(value) >= length THEN Packed(SubSeq(value, 1, length))
    ELSE Packed(value \o Repeat(length - Len(value), character))

byte_padder_add_padding(character, value, length) ==
    IF Len(value) = length THEN Packed(value)
    ELSE IF Len(value) > length THEN invalid_input
    ELSE Packed(value \o Repeat(length - Len(value), character))

(* value.find_last_not_of(character), as a count of bytes up to and including *)
(* the byte found; 0 stands for npos                                          *)
find_last_not_of(value, character) ==
    LET found == {i \in 1..Len(value) : value[i] # character}
    IN IF found = {} THEN 0 ELSE CHOOSE i \in found : \A j \in found : j <= i

(* a strip that removes one pad byte at most *)
byte_padder_strip_padding_once(character, value) ==
    IF value # <<>> /\ value[Len(value)] = character
    THEN SubSeq(value, 1, Len(value) - 1)
    ELSE value

byte_padder_strip_padding(character, value) ==
    LET end == find_last_not_of(value, character) IN
    IF end = 0 THEN <<>>
    ELSE IF end - 1 = Len(value) THEN value
    ELSE SubSeq(value, 1, end)

add_padding(pad, value, length) ==
    IF pad.padder = "none" THEN none_add_padding(value, length)
    ELSE byte_padder_add_padding(pad.character, value, length)

strip_padding(pad, value) ==
    IF pad.padder = "none" THEN value
    ELSE byte_padder_strip_padding(pad.character, value)

fixed_string_pack(length, pad, value) == add_padding(pad, value, length)

fixed_string_unpack(length, pad, buf, cur) ==
    IF cur + length <= Len(buf)
    THEN Decoded(strip_padding(pad, SubSeq(buf, cur + 1, cur + length)), cur + length)
    ELSE Thrown("out_of_bounds", "fixed_string", cur)

-----------------------------------------------------------------------------
(* The codecs, named by their template arguments *)

integral(size, sign, order) ==
    [kind |-> "integral", size |-> size, sign |-> sign, order |-> order]
compressed(sign, order, max_size) ==
    [kind |-> "compressed", sign |-> sign, order |-> order, max_size |-> max_size]
fixed_string(length, pad) == [kind |-> "fixed_string", length |-> length, pad |-> pad]
varchar(length_encoder) == [kind |-> "varchar", length_encoder |-> length_encoder]
sequence(element_encoder, length_encoder) ==
    [kind |-> "sequence", element_encoder |-> element_encoder,
     length_encoder |-> length_encoder]
current_iterator == [kind |-> "current_iterator"]

compressed_pack(sign, order, max_size, v) ==
    IF sign = "no" THEN unsigned_pack(order, max_size, v)
    ELSE signed_pack(order, max_size, v)

compressed_unpack(sign, order, max_size, buf, cur, dz) ==
    IF sign = "no" THEN unsigned_unpack(order, max_size, buf, cur, dz)
    ELSE signed_unpack(order, max_size, buf, cur, dz)

(* std::string + std::string, an exception thrown by either operand propagating *)
Plus(a, b) == IF a.ok /\ b.ok THEN Packed(a.bytes \o b.bytes) ELSE invalid_input

RECURSIVE codec_pack(_, _)
RECURSIVE sequence_pack_loop(_, _)

(* for (const auto& elem: elements) ret += element_encoder::pack(elem) *)
sequence_pack_loop(element_encoder, elements) ==
    IF elements = <<>> THEN Packed(<<>>)
    ELSE Plus(codec_pack(element_encoder, Head(elements)),
              sequence_pack_loop(element_encoder, Tail(elements)))

varchar_pack(length_encoder, value) ==
    Plus(codec_pack(length_encoder, Len(value)), Packed(value))

sequence_pack(element_encoder, length_encoder, elements) ==
    Plus(codec_pack(length_encoder, Len(elements)),
         sequence_pack_loop(element_encoder, elements))

(* head_type::pack(data) *)
codec_pack(c, v) ==
    CASE c.kind = "integral" -> Packed(integral_pack(c.size, c.sign, c.order, v))
      [] c.kind = "compressed" -> Packed(compressed_pack(c.sign, c.order, c.max_size, v))
      [] c.kind = "fixed_string" -> fixed_string_pack(c.length, c.pad, v)
      [] c.kind = "varchar" -> varchar_pack(c.length_encoder, v)
      [] c.kind = "sequence" -> sequence_pack(c.element_encoder, c.length_encoder, v)

RECURSIVE codec_unpack(_, _, _, _)
RECURSIVE sequence_unpack_loop(_, _, _, _, _, _)
RECURSIVE sequence_unpack_loop_prepend(_, _, _, _, _, _)

(* a loop that puts each element in front of the ones decoded before it *)
sequence_unpack_loop_prepend(element_encoder, length, pieces, buf, cur, dz) ==
    IF length = 0 THEN Decoded(pieces, cur)
    ELSE LET r == codec_unpack(element_encoder, buf, cur, dz) IN
         IF r.st = "ok"
         THEN sequence_unpack_loop_prepend(element_encoder, length - 1,
                                           <<r.val>> \o pieces, buf, r.cur, dz)
         ELSE r

(* while (length--) pieces.push_back(element_encoder::unpack(current, end)) *)
sequence_unpack_loop(element_encoder, length, pieces, buf, cur, dz) ==
    IF length = 0 THEN Decoded(pieces, cur)
    ELSE LET r == codec_unpack(element_encoder, buf, cur, dz) IN
         IF r.st = "ok"
         THEN sequence_unpack_loop(element_encoder, length - 1, Append(pieces, r.val),
                                   buf, r.cur, dz)
         ELSE r

(* a varchar that wants one byte more than the length it decoded *)
varchar_unpack_one_more(length_encoder, buf, cur, dz) ==
    LET r == codec_unpack(length_encoder, buf, cur, dz) IN
    IF r.st # "ok" THEN r
    ELSE IF Len(buf) - r.cur > r.val
         THEN Decoded(SubSeq(buf, r.cur + 1, r.cur + r.val), r.cur + r.val)
         ELSE Thrown("out_of_bounds", "varchar", r.cur)

varchar_unpack(length_encoder, buf, cur, dz) ==
    LET r == codec_unpack(length_encoder, buf, cur, dz) IN
    IF r.st # "ok" THEN r
    ELSE IF Len(buf) - r.cur >= r.val
         THEN Decoded(SubSeq(buf, r.cur + 1, r.cur + r.val), r.cur + r.val)
         ELSE Thrown("out_of_bounds", "varchar", r.cur)

sequence_unpack(element_encoder, length_encoder, buf, cur, dz) ==
    LET r == codec_unpack(length_encoder, buf, cur, dz) IN
    IF r.st # "ok" THEN r
    ELSE sequence_unpack_loop(element_encoder, r.val, <<>>, buf, r.cur, dz)

(* head_type::unpack(current, end) *)
codec_unpack(c, buf, cur, dz) ==
    CASE c.kind = "integral" -> integral_unpack(c.size, c.sign, c.order, buf, cur)
      [] c.kind = "compressed" ->
            compressed_unpack(c.sign, c.order, c.max_size, buf, cur, dz)
      [] c.kind = "fixed_string" -> fixed_string_unpack(c.length, c.pad, buf, cur)
      [] c.kind = "varchar" -> varchar_unpack(c.length_encoder, buf, cur, dz)
      [] c.kind = "sequence" ->
            sequence_unpack(c.element_encoder, c.length_encoder, buf, cur, dz)

-----------------------------------------------------------------------------
(* follow_up<head_type, tail_types...> and format<elements...> *)

(* a sentinel that yields the end of the buffer it was not given: the start *)
sentinel_unpack_begin(cur) == Decoded(0, cur)

(* follow_up<current_iterator, ...>::unpack: make_tuple(current), the cursor unmoved *)
sentinel_unpack(cur) == Decoded(cur, cur)

(* follow_up::pack with the operands of + exchanged *)
RECURSIVE follow_up_pack_tail_first(_, _)
follow_up_pack_tail_first(types, arguments) ==
    IF Head(types) = current_iterator
    THEN IF Len(types) = 1 THEN Packed(<<>>)
         ELSE follow_up_pack_tail_first(Tail(types), arguments)
    ELSE IF Len(types) = 1 THEN codec_pack(Head(types), Head(arguments))
    ELSE Plus(follow_up_pack_tail_first(Tail(types), Tail(arguments)),
              codec_pack(Head(types), Head(arguments)))

RECURSIVE follow_up_pack(_, _)
follow_up_pack(types, arguments) ==
    IF Head(types) = current_iterator
    THEN IF Len(types) = 1 THEN Packed(<<>>)
         ELSE follow_up_pack(Tail(types), arguments)
    ELSE IF Len(types) = 1 THEN codec_pack(Head(types), Head(arguments))
    ELSE Plus(codec_pack(Head(types), Head(arguments)),
              follow_up_pack(Tail(types), Tail(arguments)))

format_pack(elements, arguments) == follow_up_pack(elements, arguments)

-----------------------------------------------------------------------------
(* The inputs the model draws from *)

(* values of an unsigned size-bit type: all of them at 8 bits, those within *)
(* Radius of a power of two (the digit and width boundaries) at 16 bits     *)
UnsignedValues(size) ==
    IF size = 8 THEN 0..max(size)
    ELSE {v \in {Pow2(k) + d : k \in 0..size, d \in (-Radius)..Radius} \cup {300} :
            v >= 0 /\ v <= max(size)}

SignedValues(size) ==
    IF size = 8 THEN (-Pow2(size - 1))..(Pow2(size - 1) - 1)
    ELSE {v \in {s * Pow2(k) + d : s \in {-1, 1}, k \in 0..(size - 1),
                                   d \in (-Radius)..Radius} :
            v >= -Pow2(size - 1) /\ v <= Pow2(size - 1) - 1}

IntegerValues(size, sign) ==
    IF sign = "no" THEN UnsignedValues(size) ELSE SignedValues(size)

Chars == {0, 32, 97}

RECURSIVE SeqsUpTo(_, _)
SeqsUpTo(S, n) ==
    IF n = 0 THEN {<<>>}
    ELSE LET shorter == SeqsUpTo(S, n - 1)
         IN shorter \cup {Append(t, x) : t \in {u \in shorter : Len(u) = n - 1}, x \in S}

Strings == SeqsUpTo(Chars, MaxStrLen)

IntegralCodecs == {integral(size, sign, order) : size \in Sizes, sign \in Signs, order \in Orders}
CompressedCodecs ==
    {compressed(sign, order, max_size) : sign \in Signs, order \in Orders, max_size \in Sizes}
FixedStringCodecs == {fixed_string(length, pad) : length \in {1, 2}, pad \in {none, null, space}}
LengthCodecs ==
    {integral(8, "no", "little"), integral(16, "no", "big"),
     compressed("no", "little", 16), compressed("no", "big", 8)}
VarcharCodecs == {varchar(length_encoder) : length_encoder \in LengthCodecs}
ElementCodecs ==
    {integral(16, "yes", "big"), compressed("no", "big", 16), fixed_string(1, none),
     varchar(compressed("no", "little", 16))}
SequenceCodecs ==
    {sequence(element_encoder, length_encoder) :
        element_encoder \in ElementCodecs,
        length_encoder \in {integral(8, "no", "little"), compressed("no", "little", 16)}}
Codecs ==
    IntegralCodecs \cup CompressedCodecs \cup FixedStringCodecs \cup VarcharCodecs
        \cup SequenceCodecs

(* a few values of each element codec, for the sequences and the longer formats *)
FewValues(c) ==
    CASE c.kind = "integral" -> IntegerValues(c.size, c.sign) \cap {-1, 1, 300}
      [] c.kind = "compressed" -> IntegerValues(c.max_size, c.sign) \cap {-65, 0, 128, 300}
      [] c.kind = "fixed_string" -> {v \in Strings : Len(v) \in {c.length - 1, c.length}}
      [] c.kind = "varchar" -> {v \in Strings : Len(v) <= 2}

(* the values a codec is given *)
Values(c) ==
    CASE c.kind = "integral" -> IntegerValues(c.size, c.sign)
      [] c.kind = "compressed" -> IntegerValues(c.max_size, c.sign)
      [] c.kind = "fixed_string" -> Strings
      [] c.kind = "varchar" -> Strings
      [] c.kind = "sequence" -> SeqsUpTo(FewValues(c.element_encoder), MaxSeqLen)

(* a format of one codec with any of its values *)
SingleInputs ==
    UNION {{<<(<<c>>), (<<v>>)>> : v \in Values(c)} : c \in Codecs}

(* the codecs the longer formats are built from *)
FormatCodecs ==
    {integral(16, "no", "big"), integral(8, "yes", "little"),
     compressed("no", "little", 16), compressed("yes", "big", 8),
     fixed_string(2, space), fixed_string(1, none),
     varchar(compressed("no", "little", 16)),
     sequence(compressed("no", "big", 16), integral(8, "no", "little"))}

SlotValues(c) ==
    CASE c.kind \in {"integral", "compressed"} -> FewValues(c)
      [] c.kind = "fixed_string" -> {v \in {<<>>, <<97>>, <<97, 32>>} : Len(v) <= c.length}
      [] c.kind = "varchar" -> {<<>>, <<97, 0>>}
      [] c.kind = "sequence" -> {<<>>, <<128, 1>>}

(* a slot of a format: a codec with its argument, or the sentinel, which takes none *)
Slots ==
    UNION {{<<c, (<<v>>)>> : v \in SlotValues(c)} : c \in FormatCodecs}
        \cup {<<current_iterator, (<<>>)>>}

RECURSIVE FormatInputs(_)
FormatInputs(n) ==
    IF n = 0 THEN {<<(<<>>), (<<>>)>>}
    ELSE {<<(<<s[1]>>) \o f[1], s[2] \o f[2]>> : s \in Slots, f \in FormatInputs(n - 1)}

(* the format and the arguments of the example program; its compressed    *)
(* codecs are declared with the default max_size of 64 and are taken at 16 *)
(* here: pack reads of max_size only the type its argument converts to,    *)
(* and 300 and 3 are values of both types                                  *)
ExampleFormat ==
    <<integral(16, "no", "big"), fixed_string(2, space), compressed("no", "little", 16),
      varchar(compressed("no", "little", 16))>>
ExampleArguments == <<1, <<97>>, 300, <<97, 98, 99>>>>

(* strings whose size() is at and just above the largest value an 8-bit    *)
(* length codec holds, given to the varchars with such a length codec      *)
LongLengths == {max(8) + d : d \in 0..2}

LongInputs ==
    {<<(<<varchar(length_encoder)>>), (<<Repeat(n, 97)>>)>> :
        length_encoder \in {integral(8, "no", "little"), compressed("no", "big", 8)},
        n \in LongLengths}

Inputs ==
    SingleInputs \cup UNION {FormatInputs(n) : n \in 1..MaxFormatLen}
        \cup {<<ExampleFormat, ExampleArguments>>}
        \cup LongInputs

RawAlphabet == {0, 1, 128, 255}
TrailingBytes == {0, 128}

(* the byte strings handed to unpack that no pack of the same codec made:  *)
(* short strings over a few bytes, and the encodings of the 16-bit values  *)
RawBuffers ==
    SeqsUpTo(RawAlphabet, MaxRawLen)
        \cup {unsigned_pack(order, 16, v) : order \in Orders, v \in UnsignedValues(16)}

-----------------------------------------------------------------------------
(* The state machine: a caller packs its arguments with a format, or is    *)
(* handed a byte string, and unpacks the bytes with the same format, one   *)
(* follow_up frame at a time.                                              *)

Init ==
    /\ \E in \in Inputs : fmt = in[1] /\ args = in[2]
    /\ source = "none"
    /\ packed = <<>>
    /\ extra = 0
    /\ pc = "start"
    /\ idx = 0
    /\ current = 0
    /\ result = <<>>
    /\ error = NoError

(* format::pack(arguments...) *)
Pack ==
    /\ pc = "start"
    /\ LET r == format_pack(fmt, args) IN
       IF r.ok
       THEN packed' = r.bytes /\ pc' = "packed" /\ error' = NoError
       ELSE packed' = <<>> /\ pc' = "pack_failed" /\ error' = <<"invalid_input", "">>
    /\ source' = "pack"
    /\ UNCHANGED <<fmt, args, extra, idx, current, result>>

(* the caller holds bytes that did not come from pack and is about to call *)
(* the unpack of a single codec on them                                    *)
Receive ==
    /\ pc = "start"
    /\ Len(fmt) = 1
    /\ fmt[1] # current_iterator
    /\ \E raw \in RawBuffers : packed' = raw
    /\ args' = <<>>
    /\ source' = "raw"
    /\ pc' = "packed"
    /\ UNCHANGED <<fmt, extra, idx, current, result, error>>

(* the caller appends a byte to the packed string before unpacking it *)
AppendTrailing ==
    /\ pc = "packed"
    /\ source = "pack"
    /\ extra < MaxExtra
    /\ \E b \in TrailingBytes : packed' = Append(packed, b)
    /\ extra' = extra + 1
    /\ UNCHANGED <<fmt, args, source, pc, idx, current, result, error>>

(* format::unpack(packed): begin = packed.begin(), then packer::unpack(begin, packed.end()) *)
Unpack ==
    /\ pc = "packed"
    /\ pc' = "unpacking"
    /\ idx' = 1
    /\ current' = 0
    /\ result' = <<>>
    /\ UNCHANGED <<fmt, args, source, packed, extra, error>>

(* a frame whose head takes the cursor by value: the tail is entered at the  *)
(* position the head started from                                           *)
FollowUpUnpack_cursor_by_value ==
    /\ pc = "unpacking"
    /\ \E dz \in DivZeroOutcomes :
        LET head_type == fmt[idx]
            r == IF head_type = current_iterator THEN sentinel_unpack(current)
                 ELSE codec_unpack(head_type, packed, current, dz)
        IN IF r.st = "ok"
           THEN /\ result' = Append(result, r.val)
                /\ current' = current
                /\ error' = NoError
                /\ IF idx = Len(fmt)
                   THEN pc' = "done" /\ idx' = idx
                   ELSE pc' = "unpacking" /\ idx' = idx + 1
           ELSE /\ result' = <<>>
                /\ current' = current
                /\ error' = <<r.st, r.what>>
                /\ pc' = "failed"
                /\ idx' = idx
    /\ UNCHANGED <<fmt, args, source, packed, extra>>

(* one frame of follow_up::unpack: the head decodes at current and the tail  *)
(* is entered with the advanced cursor; the frame of the last type returns.  *)
(* The sentinel's frame yields current itself.  An exception leaves through  *)
(* every frame and the tuple is never built.                                 *)
FollowUpUnpack ==
    /\ pc = "unpacking"
    /\ \E dz \in DivZeroOutcomes :
        LET head_type == fmt[idx]
            r == IF head_type = current_iterator THEN sentinel_unpack(current)
                 ELSE codec_unpack(head_type, packed, current, dz)
        IN IF r.st = "ok"
           THEN /\ result' = Append(result, r.val)
                /\ current' = r.cur
                /\ error' = NoError
                /\ IF idx = Len(fmt)
                   THEN pc' = "done" /\ idx' = idx
                   ELSE pc' = "unpacking" /\ idx' = idx + 1
           ELSE /\ result' = <<>>
                /\ current' = r.cur
                /\ error' = <<r.st, r.what>>
                /\ pc' = "failed"
                /\ idx' = idx
    /\ UNCHANGED <<fmt, args, source, packed, extra>>

Next == Pack \/ Receive \/ AppendTrailing \/ Unpack \/ FollowUpUnpack

Spec == Init /\ [][Next]_vars

-----------------------------------------------------------------------------
(* Properties *)

RECURSIVE Flatten(_)
Flatten(ss) == IF ss = <<>> THEN <<>> ELSE Head(ss) \o Flatten(Tail(ss))

IsSentinel(c) == c = current_iterator
IsCodec(c) == c # current_iterator

(* the element codecs of a format, the sentinels left out *)
ElementsOf(types) == SelectSeq(types, IsCodec)

(* the packed string as the caller got it from pack, without what was appended *)
PackedByPack == SubSeq(packed, 1, Len(packed) - extra)

Finished == pc \in {"done", "failed"}

ExampleBytes == <<0, 1, 97, 32, 172, 2, 3, 97, 98, 99>>

(* C1: format::pack returns the concatenation of the element encodings in   *)
(* declaration order and nothing else; the example format packs             *)
(* (1, "a", 300, "abc") to 00 01 61 20 AC 02 03 61 62 63.                   *)
C1_PackIsConcatenation ==
    (source = "pack" /\ pc = "packed" /\ extra = 0) =>
        LET elements == ElementsOf(fmt)
            pieces == [i \in 1..Len(elements) |-> codec_pack(elements[i], args[i])]
        IN /\ \A i \in 1..Len(elements) : pieces[i].ok
           /\ packed = Flatten([i \in 1..Len(elements) |-> pieces[i].bytes])
           /\ (fmt = ExampleFormat /\ args = ExampleArguments) => packed = ExampleBytes

C1_Witness ==
    /\ source = "pack" /\ pc = "packed" /\ extra = 0
    /\ fmt = ExampleFormat /\ args = ExampleArguments
    /\ packed = ExampleBytes

(* a byte-padded fixed_string given a value that ends in its pad byte *)
LossyArgument(c, v) ==
    /\ c.kind = "fixed_string"
    /\ c.pad.padder = "byte_padder"
    /\ v # <<>>
    /\ v[Len(v)] = c.pad.character

(* C2: format::unpack(format::pack(v_1..v_k)) returns (v_1..v_k), the lossy *)
(* byte-padded fixed_string values aside.                                  *)
C2_FormatRoundTrip ==
    (/\ source = "pack" /\ extra = 0 /\ Finished
     /\ \A i \in 1..Len(fmt) : IsCodec(fmt[i]) /\ ~LossyArgument(fmt[i], args[i]))
        => (pc = "done" /\ result = args)

(* C3: format::unpack returns the tuple only when the cursor reached the   *)
(* end of the buffer, and raises incomplete_parse otherwise.                *)
C3_StrictUnpack ==
    (source = "pack" /\ pc = "done" /\ \A i \in 1..Len(fmt) : IsCodec(fmt[i]))
        => current = Len(packed)

(* C4: a signed compressed codec returns every value of its width from the *)
(* bytes it packed it to.                                                  *)
C4_SignedRoundTrip ==
    (/\ source = "pack" /\ extra = 0 /\ Finished
     /\ Len(fmt) = 1 /\ fmt[1].kind = "compressed" /\ fmt[1].sign = "yes")
        => (pc = "done" /\ result = args)

(* C5: the 8-bit little-endian unsigned compressed codec, given the 16-bit  *)
(* little-endian encoding of v, returns v when v <= 255 and raises overlong *)
(* otherwise, and ends in no other way.                                     *)
C5_NarrowDecode ==
    (/\ source = "raw" /\ Finished
     /\ fmt = <<compressed("no", "little", 8)>>)
        => \A v \in UnsignedValues(16) :
              packed = compressed_pack_little(16, v) =>
                 IF v <= max(8) THEN pc = "done" /\ result = <<v>>
                 ELSE pc = "failed" /\ error = <<"overlong", "">>

(* C6: unsigned compressed unpack of one or more bytes that are all 0x80   *)
(* ends by raising out_of_bounds or overlong.                              *)
C6_AllContinuation ==
    (/\ source = "raw" /\ Finished
     /\ Len(fmt) = 1 /\ fmt[1].kind = "compressed" /\ fmt[1].sign = "no"
     /\ packed # <<>> /\ \A i \in 1..Len(packed) : packed[i] = block_size)
        => (pc = "failed" /\ error[1] \in {"out_of_bounds", "overlong"})

(* C7: an unsigned compressed codec of either byte order returns every     *)
(* value of its width from the bytes it packed it to, and the cursor ends  *)
(* exactly at the end of those bytes.                                      *)
C7_UnsignedRoundTrip ==
    (/\ source = "pack" /\ Finished
     /\ Len(fmt) = 1 /\ fmt[1].kind = "compressed" /\ fmt[1].sign = "no")
        => (pc = "done" /\ result = args /\ current = Len(PackedByPack))

C7_Witness ==
    /\ source = "pack" /\ pc = "done" /\ extra = 0
    /\ fmt = <<compressed("no", "big", 16)>>
    /\ args = <<65535>> /\ result = <<65535>> /\ current = 3

RECURSIVE Pow128(_)
Pow128(n) == IF n = 0 THEN 1 ELSE block_size * Pow128(n - 1)

(* C8: unsigned compressed pack emits at least one byte, sets 0x80 on every *)
(* byte but the last, and puts the base-128 digits of the value in the low  *)
(* seven bits, least significant first for little and most significant     *)
(* first for big; 0 is the single byte 00.                                  *)
C8_PackDigits ==
    (/\ source = "pack" /\ pc = "packed" /\ extra = 0
     /\ Len(fmt) = 1 /\ fmt[1].kind = "compressed" /\ fmt[1].sign = "no")
        => LET v == args[1]
               n == Len(packed)
               place(i) == IF fmt[1].order = "little" THEN i - 1 ELSE n - i
           IN /\ n >= 1
              /\ \A i \in 1..(n - 1) : packed[i] >= block_size
              /\ packed[n] < block_size
              /\ \A i \in 1..n : packed[i] % block_size = (v \div Pow128(place(i))) % block_size
              /\ v < Pow128(n)
              /\ v = 0 => packed = <<0>>
              /\ (v = 128 /\ fmt[1].order = "little") => packed = <<128, 1>>

C8_Witness ==
    /\ source = "pack" /\ pc = "packed" /\ extra = 0
    /\ fmt = <<compressed("no", "big", 16)>>
    /\ args = <<300>> /\ packed = <<130, 44>>

(* the zigzag image of a signed value, by cases on its sign *)
Zigzag(v) == IF v >= 0 THEN 2 * v ELSE -2 * v - 1

(* C9: signed compressed pack(v) is unsigned compressed pack of zigzag(v),  *)
(* an unsigned value of the declared width; 0, -1, 1, -2 pack to the bytes  *)
(* 00, 01, 02, 03.                                                          *)
C9_SignedPackIsZigzag ==
    (/\ source = "pack" /\ pc = "packed" /\ extra = 0
     /\ Len(fmt) = 1 /\ fmt[1].kind = "compressed" /\ fmt[1].sign = "yes")
        => LET v == args[1] IN
           /\ Zigzag(v) \in 0..max(fmt[1].max_size)
           /\ packed = unsigned_pack(fmt[1].order, fmt[1].max_size, Zigzag(v))
           /\ v \in {0, -1, 1, -2} => packed = <<Zigzag(v)>>

C9_Witness ==
    /\ source = "pack" /\ pc = "packed" /\ extra = 0
    /\ fmt = <<compressed("yes", "little", 8)>>
    /\ args = <<-2>> /\ packed = <<3>>

(* the values the element codecs decode from buf, one after the other from cur *)
RECURSIVE DecodeFrom(_, _, _)
DecodeFrom(types, buf, cur) ==
    IF types = <<>> THEN <<>>
    ELSE LET r == codec_unpack(Head(types), buf, cur, "trap")
         IN <<r.val>> \o DecodeFrom(Tail(types), buf, r.cur)

Front(q) == SubSeq(q, 1, Len(q) - 1)

EndsWithSentinel ==
    /\ Len(fmt) >= 2
    /\ IsSentinel(fmt[Len(fmt)])
    /\ \A i \in 1..(Len(fmt) - 1) : IsCodec(fmt[i])

(* C10: the sentinel adds no bytes to pack and consumes none in unpack: a   *)
(* format [C_1..C_k, sentinel] packs to the bytes of [C_1..C_k], and        *)
(* unpacks to the values of C_1..C_k followed by the position reached after *)
(* them, the number of bytes consumed; bytes appended to the buffer change  *)
(* neither the values nor that position, which with one byte appended is    *)
(* one before the end.                                                      *)
C10_SentinelIsTransparent ==
    (source = "pack" /\ EndsWithSentinel) =>
        /\ pc = "packed" => PackedByPack = format_pack(Front(fmt), args).bytes
        /\ Finished =>
             /\ pc = "done"
             /\ result = DecodeFrom(Front(fmt), PackedByPack, 0) \o <<Len(PackedByPack)>>
             /\ current = Len(PackedByPack)
             /\ extra = 1 => result[Len(result)] = Len(packed) - 1

C10_Witness ==
    /\ source = "pack" /\ pc = "done" /\ extra = 1
    /\ fmt = <<integral(16, "no", "big"), current_iterator>>
    /\ args = <<300>> /\ packed = <<1, 44, 128>>
    /\ result = <<300, 2>>

(* the argument a codec of the format packs: sentinels take none *)
ArgIndex(i) == Cardinality({j \in 1..i : IsCodec(fmt[j])})

(* the number of bytes pack wrote for the i-th type of the format *)
PieceLen(i) ==
    IF IsSentinel(fmt[i]) THEN 0
    ELSE Len(codec_pack(fmt[i], args[ArgIndex(i)]).bytes)

(* the count of the i-th argument is one every length codec of the model holds *)
CountFits(i) ==
    fmt[i].kind \in {"varchar", "sequence"} => Len(args[ArgIndex(i)]) <= max(8)

(* where the bytes of the i-th type begin in the string pack returned *)
RECURSIVE Offset(_)
Offset(i) == IF i = 1 THEN 0 ELSE Offset(i - 1) + PieceLen(i - 1)

(* C11: during one format unpack the cursor never moves back, the types are *)
(* decoded one at a time from left to right, and each starts at the byte    *)
(* where the one before it stopped: the first at 0, and on a packed string  *)
(* whose counts fit their length codecs the i-th over exactly the bytes     *)
(* pack wrote for it.                                                       *)
C11_CursorOrder ==
    [][pc = "unpacking" =>
          /\ current' >= current
          /\ current' <= Len(packed)
          /\ idx = 1 => current = 0
          /\ pc' = "unpacking" => idx' = idx + 1
          /\ pc' # "unpacking" => (idx' = idx /\ Finished')
          /\ pc' = "done" => (idx = Len(fmt) /\ Len(result') = Len(fmt))
          /\ pc' # "failed" => Len(result') = idx
          /\ (source = "pack" /\ \A i \in 1..idx : CountFits(i)) =>
                /\ pc' # "failed"
                /\ current = Offset(idx)
                /\ current' = Offset(idx) + PieceLen(idx)]_vars

C11_Witness ==
    /\ source = "pack" /\ pc = "unpacking" /\ extra = 0
    /\ fmt = <<integral(16, "no", "big"), fixed_string(1, none)>>
    /\ idx = 2 /\ current = 2 /\ Len(result) = 1

(* the unsigned number a byte string spells in the given byte order *)
RECURSIVE HeldValue(_, _)
HeldValue(order, b) ==
    IF b = <<>> THEN 0
    ELSE IF order = "big" THEN b[Len(b)] + 256 * HeldValue(order, Front(b))
         ELSE b[1] + 256 * HeldValue(order, Tail(b))

(* the integer of the given width and signedness those bytes hold *)
HeldInteger(size, sign, order, b) ==
    LET u == HeldValue(order, b) IN
    IF sign = "yes" /\ u >= Pow2(size - 1) THEN u - Pow2(size) ELSE u

(* C12: integral unpack of width w with fewer than w/8 bytes left raises    *)
(* out_of_bounds("integer") and leaves the cursor where it was; otherwise   *)
(* it advances the cursor by exactly w/8 and returns the integer those      *)
(* bytes hold.                                                              *)
C12_IntegralUnpack ==
    [][(pc = "unpacking" /\ fmt[idx].kind = "integral") =>
          LET c == fmt[idx]
              n == c.size \div 8
          IN IF Len(packed) - current < n
             THEN /\ pc' = "failed"
                  /\ error' = <<"out_of_bounds", "integer">>
                  /\ current' = current
                  /\ result' = <<>>
             ELSE /\ pc' # "failed"
                  /\ current' = current + n
                  /\ result' = Append(result,
                        HeldInteger(c.size, c.sign, c.order,
                                    SubSeq(packed, current + 1, current + n)))]_vars

C12_Witness ==
    /\ source = "raw" /\ pc = "failed"
    /\ fmt = <<integral(16, "yes", "big")>>
    /\ packed = <<255>>
    /\ error = <<"out_of_bounds", "integer">> /\ current = 0

(* C13: integral pack(v) emits exactly size/8 bytes, the two's complement   *)
(* of v in the declared order, most significant byte first for big and     *)
(* least significant first for little, which is the host representation    *)
(* reversed exactly when the declared order is not the native one; and     *)
(* unpack returns v from those bytes.                                      *)
C13_IntegralPack ==
    (/\ source = "pack" /\ extra = 0
     /\ Len(fmt) = 1 /\ fmt[1].kind = "integral")
        => LET c == fmt[1]
               v == args[1]
               n == c.size \div 8
               u == IF v < 0 THEN v + Pow2(c.size) ELSE v
               place(i) == IF c.order = "little" THEN i - 1 ELSE n - i
               host == ValueBytes(c.size, u)
           IN /\ pc # "pack_failed"
              /\ pc # "start" =>
                    /\ Len(packed) = n
                    /\ \A i \in 1..n : packed[i] = (u \div Pow2(8 * place(i))) % 256
                    /\ (c.order = native) => packed = host
                    /\ (c.order # native) => packed = Reverse(host)
                    /\ (n > 1 /\ packed # Reverse(packed)) =>
                          ((packed # host) <=> (c.order # native))
              /\ Finished => (pc = "done" /\ result = args /\ current = n)

C13_Witness ==
    /\ source = "pack" /\ pc = "done" /\ extra = 0
    /\ fmt = <<integral(16, "yes", "big")>>
    /\ args = <<-2>> /\ packed = <<255, 254>> /\ result = <<-2>>

(* C14: fixed_string<N, pad> pack(s) returns exactly N bytes or raises      *)
(* invalid_input with no output.  With no padding it raises exactly when    *)
(* len(s) # N (one byte short and one byte long both fail) and returns s    *)
(* otherwise; with a pad byte c it raises exactly when len(s) > N and       *)
(* otherwise returns s followed by N - len(s) copies of c.                  *)
C14_FixedStringPack ==
    (/\ source = "pack" /\ extra = 0
     /\ Len(fmt) = 1 /\ fmt[1].kind = "fixed_string")
        => LET N == fmt[1].length
               pad == fmt[1].pad
               s == args[1]
               raises == IF pad.padder = "none" THEN Len(s) # N ELSE Len(s) > N
           IN IF raises
              THEN pc = "pack_failed" /\ packed = <<>> /\ error[1] = "invalid_input"
              ELSE /\ pc # "pack_failed"
                   /\ Len(packed) = N
                   /\ SubSeq(packed, 1, Len(s)) = s
                   /\ \A i \in (Len(s) + 1)..N : packed[i] = pad.character
                   /\ pad.padder = "none" => packed = s

C14_Witness ==
    /\ source = "pack" /\ pc = "pack_failed"
    /\ fmt = <<fixed_string(2, none)>>
    /\ args = <<(<<97>>)>>
    /\ packed = <<>> /\ error[1] = "invalid_input"

(* a string without its longest suffix of bytes c *)
RECURSIVE StripTrailing(_, _)
StripTrailing(s, c) ==
    IF s = <<>> \/ s[Len(s)] # c THEN s ELSE StripTrailing(Front(s), c)

(* C15: fixed_string<N, byte_padder<c>> unpack of N bytes returns them       *)
(* without their longest trailing run of c, the empty string when all are   *)
(* c; so unpack(pack(s)) is s without its trailing run of c, which is s     *)
(* exactly when s does not end with c.                                      *)
C15_StripPadding ==
    (/\ Len(fmt) = 1 /\ fmt[1].kind = "fixed_string"
     /\ fmt[1].pad.padder = "byte_padder" /\ Finished)
        => LET N == fmt[1].length
               c == fmt[1].pad.character
           IN /\ (pc = "done") <=> (Len(packed) >= N)
              /\ pc = "done" =>
                    /\ current = N
                    /\ result = <<StripTrailing(SubSeq(packed, 1, N), c)>>
                    /\ (\A i \in 1..N : packed[i] = c) => result = <<(<<>>)>>
                    /\ source = "pack" =>
                          LET s == args[1] IN
                          /\ result = <<StripTrailing(s, c)>>
                          /\ (result = args) <=> (s = <<>> \/ s[Len(s)] # c)

C15_Witness ==
    /\ source = "pack" /\ pc = "done" /\ extra = 0
    /\ fmt = <<fixed_string(2, space)>>
    /\ args = <<(<<97, 32>>)>> /\ packed = <<97, 32>>
    /\ result = <<(<<97>>)>>

(* C16: varchar unpack, once the length codec has decoded L from the start  *)
(* of the buffer, raises out_of_bounds("varchar") when fewer than L bytes   *)
(* remain, and otherwise returns exactly the L bytes after the prefix and   *)
(* leaves the cursor exactly L bytes past the prefix.  An error of the      *)
(* length codec is the error of the varchar.                                *)
C16_VarcharUnpack ==
    (Len(fmt) = 1 /\ fmt[1].kind = "varchar" /\ Finished)
        => \E dz \in DivZeroOutcomes :
              LET prefix == codec_unpack(fmt[1].length_encoder, packed, 0, dz)
                  L == prefix.val
              IN IF prefix.st # "ok"
                 THEN pc = "failed" /\ error = <<prefix.st, prefix.what>>
                 ELSE IF Len(packed) - prefix.cur < L
                      THEN pc = "failed" /\ error = <<"out_of_bounds", "varchar">>
                      ELSE /\ pc = "done"
                           /\ Len(result[1]) = L
                           /\ result = <<SubSeq(packed, prefix.cur + 1, prefix.cur + L)>>
                           /\ current = prefix.cur + L

C16_Witness ==
    /\ source = "raw" /\ pc = "done"
    /\ fmt = <<varchar(integral(8, "no", "little"))>>
    /\ packed = <<1, 128, 0>>
    /\ result = <<(<<128>>)>> /\ current = 2

(* n values of one codec decoded one after the other from cur, first to last *)
RECURSIVE DecodeTimes(_, _, _, _, _)
DecodeTimes(element_encoder, n, buf, cur, dz) ==
    IF n = 0 THEN Decoded(<<>>, cur)
    ELSE LET first == codec_unpack(element_encoder, buf, cur, dz) IN
         IF first.st # "ok" THEN first
         ELSE LET rest == DecodeTimes(element_encoder, n - 1, buf, first.cur, dz) IN
              IF rest.st # "ok" THEN rest
              ELSE Decoded(<<first.val>> \o rest.val, rest.cur)

(* C17: sequence<E, L> unpack decodes the count N with L, then decodes E    *)
(* exactly N times in order, each from where the one before stopped, and   *)
(* returns the N values in wire order; when an element fails, a buffer     *)
(* that ends early included, that element's error is the error of the      *)
(* sequence and no list is returned.                                       *)
C17_SequenceUnpack ==
    (Len(fmt) = 1 /\ fmt[1].kind = "sequence" /\ Finished)
        => \E dz \in DivZeroOutcomes :
              LET E == fmt[1].element_encoder
                  count == codec_unpack(fmt[1].length_encoder, packed, 0, dz)
                  N == count.val
              IN IF count.st # "ok"
                 THEN pc = "failed" /\ error = <<count.st, count.what>>
                 ELSE LET d == DecodeTimes(E, N, packed, count.cur, dz) IN
                      IF d.st = "ok"
                      THEN /\ pc = "done"
                           /\ Len(result[1]) = N
                           /\ result = <<d.val>>
                           /\ current = d.cur
                           /\ (source = "pack" /\ Len(args[1]) <= max(8)) => result = args
                      ELSE /\ pc = "failed"
                           /\ error = <<d.st, d.what>>
                           /\ result = <<>>

C17_Witness ==
    /\ source = "pack" /\ pc = "done" /\ extra = 0
    /\ fmt = <<sequence(compressed("no", "big", 16), integral(8, "no", "little"))>>
    /\ args = <<(<<128, 300>>)>> /\ packed = <<2, 129, 0, 130, 44>>
    /\ result = <<(<<128, 300>>)>> /\ current = 5

(* the number the low seven bits of the bytes spell in base 128, most       *)
(* significant first; past cap the digits that follow are left out, the     *)
(* number being above cap already                                           *)
RECURSIVE Base128(_, _, _)
Base128(bytes, acc, cap) ==
    IF bytes = <<>> \/ acc > cap THEN acc
    ELSE Base128(Tail(bytes), block_size * acc + (Head(bytes) % block_size), cap)

(* C18: big-endian unsigned compressed unpack of width w, on a byte string  *)
(* that holds a terminating byte, returns the exact base-128 value of the   *)
(* digits up to that byte when it is at most 2^w - 1, with the cursor just  *)
(* past that byte, and raises overlong otherwise; no value reduced modulo   *)
(* 2^w is returned.                                                         *)
C18_BigEndianNoWrap ==
    (/\ Len(fmt) = 1 /\ fmt[1].kind = "compressed"
     /\ fmt[1].sign = "no" /\ fmt[1].order = "big"
     /\ Finished
     /\ \E i \in 1..Len(packed) : packed[i] < block_size)
        => LET w == fmt[1].max_size
               last == CHOOSE i \in 1..Len(packed) :
                          /\ packed[i] < block_size
                          /\ \A j \in 1..(i - 1) : packed[j] >= block_size
               V == Base128(SubSeq(packed, 1, last), 0, max(w))
           IN IF V <= max(w)
              THEN pc = "done" /\ result = <<V>> /\ current = last
              ELSE pc = "failed" /\ error = <<"overlong", "">>

C18_Witness ==
    /\ source = "raw" /\ pc = "failed"
    /\ fmt = <<compressed("no", "big", 8)>>
    /\ packed = <<130, 0>>
    /\ error = <<"overlong", "">>

(* C19: varchar and sequence pack emit a length prefix that decodes under   *)
(* the length codec to the actual number of payload bytes or elements, for  *)
(* every input length, those above the largest value the length codec's     *)
(* width holds included.                                                    *)
C19_LengthPrefix ==
    (/\ source = "pack" /\ pc = "packed" /\ extra = 0
     /\ Len(fmt) = 1 /\ fmt[1].kind \in {"varchar", "sequence"})
        => \A dz \in DivZeroOutcomes :
              LET prefix == codec_unpack(fmt[1].length_encoder, packed, 0, dz)
              IN prefix.st = "ok" /\ prefix.val = Len(args[1])

====
